---------------------------- MODULE Spec2Model ----------------------------
(***************************************************************************)
(* Model of the system-information subsystem of nzbget: the network        *)
(* identity client (HardwareInfo::GetNetwork with its two-hour cache, and  *)
(* the TLS based SystemInfo::GetNetworkInfo / HttpClient::Get revisions).  *)
(*                                                                         *)
(* Strings are sequences of tokens.  A token stands for a run of           *)
(* characters that the code never splits ("HTTP/1.1", "200", "\r\n").      *)
(* find(), substr() and Trim() are computed on these sequences.            *)
(***************************************************************************)
EXTENDS Integers, Sequences, FiniteSets, TLC

VARIABLES
    now,                  \* reading of system_clock, in hours
    m_network,            \* HardwareInfo::m_network
    m_networkTimePoint,   \* HardwareInfo::m_networkTimePoint
    m_socket,             \* HardwareInfo::m_socket: open flag and local endpoint
    cfg,                  \* the threads that call GetNetwork, and the run's budget
    pc,                   \* position of each thread inside GetNetwork
    loc,                  \* locals of the running call of each thread
    last,                 \* record of the current/last call of each thread
    calls,                \* number of GetNetwork calls started
    by,                   \* which call wrote publicIP / privateIP last
    good,                 \* last resolution that stored a non-empty pair
    env,                  \* environment of one GetNetworkInfo probe
    probe,                \* function applied to env and its outcome
    host,                 \* what the machine offers the tool resolver
    tool,                 \* resolver function applied to host and its result
    snap,                 \* the snapshot handed to a serializer
    doc,                  \* serializer applied to snap and the document made
    file,                 \* /proc/cpuinfo or /etc/os-release and the machine
    parsed,               \* Init function applied to file and what it left
    live                  \* serializer calls on the running program

vars == <<now, m_network, m_networkTimePoint, m_socket, cfg, pc, loc,
          last, calls, by, good, env, probe, host, tool, snap, doc,
          file, parsed, live>>

cacheVars == <<now, m_network, m_networkTimePoint, m_socket, cfg, pc,
               loc, last, calls, by, good>>

probeVars == <<env, probe>>

toolVars == <<host, tool>>

serVars == <<snap, doc>>

parseVars == <<file, parsed>>

liveVars == <<live>>

-----------------------------------------------------------------------------
(* Bounds of the model *)

MaxTime == 4

MaxCalls == 3

MaxEndpoints == 2

(* budget of the runs with two threads *)
MaxConcCalls == 2

MaxConcTime == 1

(* (now - m_networkTimePoint) < 2h *)
TTL == 2

AllThreads == {1, 2}

-----------------------------------------------------------------------------
(* Strings *)

SP == "SP"

CRLF == "CRLF"

LF == "LF"

IsSpace(c) == c \in {SP, CRLF, LF}

(* std::string::find: index (1-based) of the first occurrence, 0 for npos *)
Find(s, pat) ==
    LET hits == {i \in 1..(Len(s) - Len(pat) + 1) :
                    SubSeq(s, i, i + Len(pat) - 1) = pat}
    IN IF hits = {} THEN 0 ELSE CHOOSE i \in hits : \A j \in hits : i <= j

(* std::string::substr(pos): from index pos to the end *)
Substr(s, pos) == SubSeq(s, pos, Len(s))

(* Util::Trim: strips leading and trailing whitespace *)
Trim(s) ==
    LET keep == {i \in 1..Len(s) : ~IsSpace(s[i])}
    IN IF keep = {} THEN <<>>
       ELSE LET lo == CHOOSE i \in keep : \A j \in keep : i <= j
                hi == CHOOSE i \in keep : \A j \in keep : j <= i
            IN SubSeq(s, lo, hi)

-----------------------------------------------------------------------------
(* What the peer may answer *)

Ip1 == "203.0.113.5"

Ip2 == "198.51.100.7"

StatusLine200 == <<"HTTP/1.1", SP, "200", SP, "OK", CRLF>>

StatusLine200NoReason == <<"HTTP/1.1", SP, "200", CRLF>>

StatusLine404 == <<"HTTP/1.1", SP, "404", SP, "NotFound", CRLF>>

HeaderLine == <<"Server:", SP, "x", CRLF>>

EchoHeaderLine == <<"X-Note:", SP, "200", SP, "OK", CRLF>>

RespOk(ip) == StatusLine200 \o HeaderLine \o <<CRLF>> \o <<ip, CRLF>>

RespOkNoBody == StatusLine200 \o HeaderLine \o <<CRLF>>

RespOkBlankBody == StatusLine200 \o HeaderLine \o <<CRLF>> \o <<SP, CRLF>>

RespOkNoSeparator == StatusLine200 \o HeaderLine

Resp200NoReason == StatusLine200NoReason \o HeaderLine \o <<CRLF>> \o <<Ip1, CRLF>>

Resp404 == StatusLine404 \o HeaderLine \o <<CRLF>> \o <<"error", CRLF>>

Resp404Echo == StatusLine404 \o EchoHeaderLine \o <<CRLF>> \o <<Ip1, CRLF>>

RespGarbage == <<"error", CRLF>>

Responses ==
    {RespOk(Ip1), RespOk(Ip2), RespOkNoBody, RespOkBlankBody, RespOkNoSeparator,
     Resp200NoReason, Resp404, Resp404Echo, RespGarbage}

NoResp == <<"none">>

(* response.find("200 OK") *)
OK200 == <<"200", SP, "OK">>

(* a separator that one line end already matches *)
SeparatorOneLineEnd == <<CRLF>>

(* response.find("\r\n\r\n") *)
Separator == <<CRLF, CRLF>>

(* the whitespace separated words of a string, as operator>> reads them *)
Words(s) ==
    LET idx == {i \in 1..Len(s) : ~IsSpace(s[i])}
        nth(k) == CHOOSE i \in idx : Cardinality({j \in idx : j < i}) = k - 1
    IN [k \in 1..Cardinality(idx) |-> s[nth(k)]]

(* value of a word read as unsigned; -1 when it is no number *)
TokenValue(w) ==
    CASE w = "200" -> 200
      [] w = "404" -> 404
      [] OTHER -> -1

(* responseStream >> httpVersion >> statusCode: the second word of the     *)
(* status line; 0 when the extraction fails                                *)
StatusCode(resp) ==
    IF Len(Words(resp)) >= 2 /\ TokenValue(Words(resp)[2]) >= 0
    THEN TokenValue(Words(resp)[2])
    ELSE 0

-----------------------------------------------------------------------------
(* Endpoints: resolver.resolve() yields a sequence; TRUE = accepts the       *)
(* connection                                                              *)

EndpointLists ==
    UNION {[1..n -> BOOLEAN] : n \in 1..MaxEndpoints}

(* a connect that gives up after the first endpoint *)
ConnectedIndexFirstOnly(eps) == IF eps[1] THEN 1 ELSE 0

(* asio::connect(socket, endpoints): one connect per endpoint, in order,   *)
(* until one succeeds.  Index of the endpoint connected, 0 when none.      *)
ConnectedIndex(eps) ==
    LET okay == {i \in 1..Len(eps) : eps[i]}
    IN IF okay = {} THEN 0 ELSE CHOOSE i \in okay : \A j \in okay : i <= j

(* number of socket connects asio::connect performed *)
ConnectTries(eps) ==
    IF ConnectedIndex(eps) = 0 THEN Len(eps) ELSE ConnectedIndex(eps)

(* local_endpoint().address().to_string() of a connection to endpoint i:   *)
(* the address family of the endpoint selects the local address            *)
LocalAddr(i) == IF i = 1 THEN "192.168.1.10" ELSE "fd00::10"

-----------------------------------------------------------------------------
(* HardwareInfo::GetNetwork *)

EmptyNetwork == [publicIP |-> <<>>, privateIP |-> <<>>]

NoGood == [at |-> -1, val |-> EmptyNetwork]

(* the age test written with <= *)
CacheValidInclusive(net, tp, t) ==
    /\ net.privateIP # <<>>
    /\ net.publicIP # <<>>
    /\ (t - tp) <= TTL

(* the test of the cache at the top of GetNetwork *)
CacheValid(net, tp, t) ==
    /\ net.privateIP # <<>>
    /\ net.publicIP # <<>>
    /\ (t - tp) < TTL

NoCall ==
    [n |-> 0, at |-> 0, pre |-> EmptyNetwork, preTp |-> 0, preGood |-> NoGood,
     attempted |-> FALSE, connects |-> 0, resp |-> NoResp, exc |-> "none",
     stored |-> FALSE, done |-> TRUE, ret |-> EmptyNetwork,
     retBy |-> [pub |-> 0, priv |-> 0]]

NoLocals == [pub |-> <<>>]

(* return m_network: the call ends and the caller holds the entry *)
Finish(rec, net, who) ==
    [rec EXCEPT !.done = TRUE, !.ret = net, !.retBy = who]

(* auto now = system_clock::now(); the cache test; return m_network *)
Call(t) ==
    /\ t \in cfg.threads
    /\ pc[t] = "idle"
    /\ calls < cfg.maxCalls
    /\ calls' = calls + 1
    /\ LET hit == CacheValid(m_network, m_networkTimePoint, now)
           rec == [NoCall EXCEPT !.n = calls + 1, !.at = now,
                                 !.pre = m_network,
                                 !.preTp = m_networkTimePoint,
                                 !.preGood = good,
                                 !.attempted = ~hit, !.done = FALSE]
       IN /\ pc' = [pc EXCEPT ![t] = IF hit THEN "idle" ELSE "connect"]
          /\ last' = [last EXCEPT ![t] =
                        IF hit THEN Finish(rec, m_network, by) ELSE rec]
    /\ loc' = [loc EXCEPT ![t] = NoLocals]
    /\ UNCHANGED <<now, m_network, m_networkTimePoint, m_socket, cfg,
                   by, good>>
    /\ UNCHANGED <<probeVars, toolVars, serVars, parseVars, liveVars>>

(* the attempt forgets to store the time point *)
StampKept(tp, at) == tp

(* the time point the attempt leaves in m_networkTimePoint *)
Stamp(tp, at) == at

(* m_networkTimePoint = now; asio::connect(m_socket, m_resolver.resolve()) *)
Connect(t) ==
    /\ t \in cfg.threads
    /\ pc[t] = "connect"
    /\ m_networkTimePoint' = Stamp(m_networkTimePoint, last[t].at)
    /\ \/ \* resolve() throws: caught, return m_network
          /\ last' = [last EXCEPT ![t] =
                        Finish([@ EXCEPT !.exc = "resolve"], m_network, by)]
          /\ pc' = [pc EXCEPT ![t] = "idle"]
          /\ UNCHANGED m_socket
       \/ \E eps \in EndpointLists :
            LET idx == ConnectedIndex(eps)
                rec == [last[t] EXCEPT !.connects = ConnectTries(eps)]
            IN IF idx = 0
               THEN \* every endpoint refused: connect throws
                    /\ last' = [last EXCEPT ![t] =
                                  Finish([rec EXCEPT !.exc = "connect"],
                                         m_network, by)]
                    /\ pc' = [pc EXCEPT ![t] = "idle"]
                    /\ m_socket' = [open |-> TRUE, local |-> <<>>]
               ELSE /\ last' = [last EXCEPT ![t] = rec]
                    /\ pc' = [pc EXCEPT ![t] = "exchange"]
                    /\ m_socket' = [open |-> TRUE,
                                    local |-> <<LocalAddr(idx)>>]
    /\ UNCHANGED <<now, m_network, cfg, loc, calls, by, good>>
    /\ UNCHANGED <<probeVars, toolVars, serVars, parseVars, liveVars>>

(* the response is taken when it holds "200 OK" and the separator *)
Accepts(resp) == Find(resp, OK200) # 0 /\ Find(resp, Separator) # 0

(* response.substr(headersEndPos); Util::Trim(response) *)
PublicIPOf(resp) == Trim(Substr(resp, Find(resp, Separator)))

(* asio::write; m_socket.read_some; the two find() tests *)
Exchange(t) ==
    /\ t \in cfg.threads
    /\ pc[t] = "exchange"
    /\ \/ \E step \in {"write", "read"} :
            /\ last' = [last EXCEPT ![t] =
                          Finish([@ EXCEPT !.exc = step], m_network, by)]
            /\ pc' = [pc EXCEPT ![t] = "idle"]
            /\ UNCHANGED loc
       \/ \E resp \in Responses :
            LET rec == [last[t] EXCEPT !.resp = resp]
            IN IF Accepts(resp)
               THEN /\ last' = [last EXCEPT ![t] = rec]
                    /\ loc' = [loc EXCEPT ![t] = [pub |-> PublicIPOf(resp)]]
                    /\ pc' = [pc EXCEPT ![t] = "setPublic"]
               ELSE /\ last' = [last EXCEPT ![t] = Finish(rec, m_network, by)]
                    /\ pc' = [pc EXCEPT ![t] = "idle"]
                    /\ UNCHANGED loc
    /\ UNCHANGED <<now, m_network, m_networkTimePoint, m_socket, cfg,
                   calls, by, good>>
    /\ UNCHANGED <<probeVars, toolVars, serVars, parseVars, liveVars>>

(* m_network.publicIP = std::move(response).  No lock guards m_network:    *)
(* with two callers the assignments of the two fields interleave freely,   *)
(* which is how the unsynchronised writes show up in the entry.            *)
SetPublic(t) ==
    /\ t \in cfg.threads
    /\ pc[t] = "setPublic"
    /\ m_network' = [m_network EXCEPT !.publicIP = loc[t].pub]
    /\ by' = [by EXCEPT !.pub = last[t].n]
    /\ pc' = [pc EXCEPT ![t] = "setPrivate"]
    /\ UNCHANGED <<now, m_networkTimePoint, m_socket, cfg, loc, last,
                   calls, good>>
    /\ UNCHANGED <<probeVars, toolVars, serVars, parseVars, liveVars>>

(* m_network.privateIP = m_socket.local_endpoint().address().to_string()   *)
(* then return m_network; local_endpoint() may throw                       *)
SetPrivate(t) ==
    /\ t \in cfg.threads
    /\ pc[t] = "setPrivate"
    /\ \/ /\ m_socket.local # <<>>
          /\ LET net == [m_network EXCEPT !.privateIP = m_socket.local]
                 who == [by EXCEPT !.priv = last[t].n]
             IN /\ m_network' = net
                /\ by' = who
                /\ last' = [last EXCEPT ![t] =
                              Finish([@ EXCEPT !.stored = TRUE], net, who)]
                /\ good' = IF net.publicIP # <<>> /\ net.privateIP # <<>>
                           THEN [at |-> last[t].at, val |-> net]
                           ELSE good
       \/ /\ last' = [last EXCEPT ![t] =
                        Finish([@ EXCEPT !.exc = "local"], m_network, by)]
          /\ UNCHANGED <<m_network, by, good>>
    /\ pc' = [pc EXCEPT ![t] = "idle"]
    /\ UNCHANGED <<now, m_networkTimePoint, m_socket, cfg, loc, calls>>
    /\ UNCHANGED <<probeVars, toolVars, serVars, parseVars, liveVars>>

(* the clock advances *)
Tick ==
    /\ now < cfg.maxTime
    /\ now' = now + 1
    /\ UNCHANGED <<m_network, m_networkTimePoint, m_socket, cfg, pc, loc,
                   last, calls, by, good>>
    /\ UNCHANGED <<probeVars, toolVars, serVars, parseVars, liveVars>>

-----------------------------------------------------------------------------
(* SystemInfo::GetNetworkInfo and HttpClient::Get: one TLS exchange with   *)
(* the address service.  An environment fixes what the network does:       *)
(*   dns   resolver.resolve() succeeds                                     *)
(*   eps   the endpoints resolved, each accepting the connection or not    *)
(*   fail  the step that fails, when one does                              *)
(*   resp  what the peer sends                                             *)

FailPoints == {"none", "sni", "handshake", "write", "read", "body", "local"}

Envs == [dns : BOOLEAN, eps : EndpointLists, fail : FailPoints, resp : Responses]

NoEnv == [dns |-> TRUE, eps |-> <<TRUE>>, fail |-> "none", resp |-> NoResp]

Step(name, ok) == [step |-> name, ok |-> ok]

NoOut ==
    [network |-> EmptyNetwork, raised |-> FALSE, log |-> <<>>, log2 |-> <<>>,
     connects |-> 0, local |-> <<>>, resp |-> NoResp, body |-> <<>>]

NoProbe == [fn |-> "none", out |-> NoOut]

(* a handshake that would not notice an unconnected socket *)
HandshakeAnySocket(connected, e) == e.fail # "handshake"

(* stream.handshake(client): the handshake runs over the socket and fails  *)
(* when the socket is not connected                                        *)
Handshake(connected, e) == connected /\ e.fail # "handshake"

(* the steps up to the first read, for the code that lets a failed connect *)
(* throw (checked = TRUE) and for the code that passes an error_code and   *)
(* goes on (checked = FALSE)                                               *)
ExchangeLog(e, checked) ==
    LET conn == ConnectedIndex(e.eps) # 0
        l1 == <<Step("connect", conn)>>
        l2 == l1 \o <<Step("sni", e.fail # "sni")>>
        l3 == l2 \o <<Step("handshake", Handshake(conn, e))>>
        l4 == l3 \o <<Step("write", e.fail # "write")>>
        l5 == l4 \o <<Step("read", e.fail # "read")>>
    IN IF ~e.dns THEN <<>>
       ELSE IF checked /\ ~conn THEN l1
       ELSE IF e.fail = "sni" THEN l2
       ELSE IF ~Handshake(conn, e) THEN l3
       ELSE IF e.fail = "write" THEN l4
       ELSE l5

(* number of connects made, and the local address of the connection *)
Connects(e) == IF e.dns THEN ConnectTries(e.eps) ELSE 0

LocalOf(e) ==
    IF e.dns /\ ConnectedIndex(e.eps) # 0
    THEN <<LocalAddr(ConnectedIndex(e.eps))>>
    ELSE <<>>

(* the exchange got a response into the buffer *)
GotResponse(log) == Len(log) = 5 /\ log[5].ok

(* SystemInfo::GetNetworkInfo, read_some revision *)
GetNetworkInfoReadSome(e) ==
    LET log == ExchangeLog(e, TRUE)
        out == [NoOut EXCEPT !.log = log, !.connects = Connects(e),
                             !.local = LocalOf(e)]
    IN IF ~GotResponse(log) THEN out
       ELSE IF ~Accepts(e.resp) THEN [out EXCEPT !.resp = e.resp]
       ELSE IF e.fail = "local"
       THEN [out EXCEPT !.resp = e.resp,
                        !.network = [publicIP |-> PublicIPOf(e.resp),
                                     privateIP |-> <<>>]]
       ELSE [out EXCEPT !.resp = e.resp,
                        !.network =
                            [publicIP |-> PublicIPOf(e.resp),
                             privateIP |-> LocalOf(e)]]

(* httpVersion.find("HTTP/") != npos *)
IsHttpVersion(w) == w = "HTTP/1.1"

(* !responseStream || httpVersion.find("HTTP/") == npos *)
InvalidStatusLine(resp) ==
    \/ Len(Words(resp)) < 2
    \/ TokenValue(Words(resp)[2]) < 0
    \/ ~IsHttpVersion(Words(resp)[1])

(* what follows the separator *)
BodyOf(resp) == Substr(resp, Find(resp, Separator) + Len(Separator))

(* HttpClient::Get: every failure is an exception of the future *)
HttpClientGet(e) ==
    LET log == ExchangeLog(e, FALSE)
        out == [NoOut EXCEPT !.log = log, !.connects = Connects(e),
                             !.local = LocalOf(e)]
        bad == [out EXCEPT !.raised = TRUE]
    IN IF ~GotResponse(log) THEN bad
       ELSE IF InvalidStatusLine(e.resp) THEN [bad EXCEPT !.resp = e.resp]
       ELSE IF StatusCode(e.resp) # 200 THEN [bad EXCEPT !.resp = e.resp]
       ELSE IF Find(e.resp, Separator) = 0 THEN [bad EXCEPT !.resp = e.resp]
       ELSE IF e.fail = "body" THEN [bad EXCEPT !.resp = e.resp]
       ELSE [out EXCEPT !.resp = e.resp, !.body = BodyOf(e.resp)]

(* SystemInfo::GetNetworkInfo, streambuf revision: hc->Get(...).get()      *)
(* outside the try block, then an exchange of its own under e2 whose       *)
(* result is not stored in network                                         *)
GetNetworkInfoStream(e, e2) ==
    LET first == HttpClientGet(e)
        log2 == ExchangeLog(e2, FALSE)
    IN IF first.raised THEN [first EXCEPT !.body = <<>>]
       ELSE [NoOut EXCEPT !.log = first.log, !.log2 = log2,
                          !.connects = Connects(e2), !.local = LocalOf(e2),
                          !.resp = IF GotResponse(log2) THEN e2.resp
                                   ELSE NoResp]

ProbeReadSome ==
    /\ probe.fn = "none"
    /\ probe' = [fn |-> "GetNetworkInfoReadSome",
                 out |-> GetNetworkInfoReadSome(env)]
    /\ UNCHANGED env
    /\ UNCHANGED <<cacheVars, toolVars, serVars, parseVars, liveVars>>

ProbeHttpClientGet ==
    /\ probe.fn = "none"
    /\ probe' = [fn |-> "HttpClientGet", out |-> HttpClientGet(env)]
    /\ UNCHANGED env
    /\ UNCHANGED <<cacheVars, toolVars, serVars, parseVars, liveVars>>

ProbeStream ==
    /\ probe.fn = "none"
    /\ \E e2 \in (IF HttpClientGet(env).raised THEN {env} ELSE Envs) :
          probe' = [fn |-> "GetNetworkInfoStream",
                    out |-> GetNetworkInfoStream(env, e2)]
    /\ UNCHANGED env
    /\ UNCHANGED <<cacheVars, toolVars, serVars, parseVars, liveVars>>

-----------------------------------------------------------------------------
(* The tool resolver: SystemInfo::GetTools and what it calls.              *)
(*                                                                         *)
(* A line of subprocess output is a sequence of characters; digits and the *)
(* dot are single characters, a word the code never looks into ("7-Zip",   *)
(* "UNRAR", "(x64)") is one token.  No word ends in a digit or holds a dot, *)
(* so the version pattern can only match on the single characters.         *)

Dot == "."

Digits == {"0", "1", "2", "5", "7", "9"}

IsDigit(c) == c \in Digits

(* the greatest length of a generated banner line, and of an output *)
MaxLineLen == 4

MaxLines == 2

(* all sequences over S of length at most n *)
SeqUpTo(S, n) == UNION {[1..k -> S] : k \in 0..n}

(* [0-9]* matched greedily at position i: the length of the run of digits *)
DigitRun(s, i) ==
    LET stops == {j \in i..(Len(s) + 1) : j = Len(s) + 1 \/ ~IsDigit(s[j])}
    IN (CHOOSE j \in stops : \A k \in stops : j <= k) - i

(* [0-9]*\.[0-9]* matches at position i: the digits from i, all of them,   *)
(* are followed by a dot                                                   *)
MatchesAt(s, i) ==
    LET d == i + DigitRun(s, i)
    IN d <= Len(s) /\ s[d] = Dot

(* SystemInfo::ParseUnpackerVersion, and UnpackerVersionParserFunc of the  *)
(* earlier revision: regex_search with [0-9]*\.[0-9]* gives the leftmost   *)
(* match, each star taking all the digits there are, zero included         *)
ParseUnpackerVersion(line) ==
    LET starts == {i \in 1..Len(line) : MatchesAt(line, i)}
    IN IF starts = {} THEN <<>>
       ELSE LET i == CHOOSE j \in starts : \A k \in starts : j <= k
                d == i + DigitRun(line, i)
            IN SubSeq(line, i, d + DigitRun(line, d + 1))

(* strstr(buffer, marker) *)
HasMarker(line, marker) == Find(line, <<marker>>) # 0

(* banner lines *)
Banner7z ==
    <<"7-Zip", SP, "(a)", SP, "1", "9", Dot, "0", "0", SP, "(x64)", LF>>

Banner7zLater == <<"7-Zip", SP, "2", Dot, "5", LF>>

BannerUnrar == <<"UNRAR", SP, "5", Dot, "7", "0", SP, "freeware", LF>>

UsageLine == <<"Usage", SP, "1", Dot, "0", LF>>

MarkersOnly == <<"7-Zip", SP, "UNRAR", LF>>

BlankLine == <<LF>>

BannerLines ==
    {Banner7z, Banner7zLater, BannerUnrar, UsageLine, MarkersOnly, BlankLine}

LineChars == {"1", "9", Dot, "x", SP}

Lines == SeqUpTo(LineChars, MaxLineLen)

Outputs == SeqUpTo(BannerLines, MaxLines)

(* Options::GetUnrarCmd / GetSevenZipCmd: the configured command *)
Cmds == {<<>>, <<"unrar">>, <<"unrar", SP, "-ai">>}

(* An archiver as the machine has it:                                      *)
(*   cmd     the configured command                                        *)
(*   real    FileSystem::GetFileRealPath has a value for its first token   *)
(*   exists  FileSystem::FileExists on that value                          *)
(*   launch  popen() gives a pipe                                          *)
(*   out     what the program prints when it can be run                    *)
(*   readErr after these lines the read fails, and goes on failing,        *)
(*           without the end-of-file indicator being set                   *)
UnpackerEnvs ==
    [cmd : Cmds, real : BOOLEAN, exists : BOOLEAN, launch : BOOLEAN,
     out : Outputs, readErr : BOOLEAN]

NoUnpacker ==
    [cmd |-> <<>>, real |-> FALSE, exists |-> FALSE, launch |-> FALSE,
     out |-> <<>>, readErr |-> FALSE]

(* the first token of the command resolves to an existing file *)
Resolves(u) == u.cmd # <<>> /\ u.real /\ u.exists

(* what fgets reads from the pipe, line by line: a command that does not   *)
(* resolve to a file prints nothing on standard output                     *)
PipeLines(u) == IF Resolves(u) THEN u.out ELSE <<>>

(* FileSystem::ExtractFilePath: the command without its arguments *)
ExtractFilePath(cmd) ==
    LET c == Trim(cmd)
        pos == Find(c, <<SP>>)
    IN IF pos = 0 THEN c ELSE SubSeq(c, 1, pos - 1)

(* FileSystem::GetFileRealPath: the canonical absolute path *)
GetFileRealPath(path) == <<"/usr/bin/">> \o path

(* SystemInfo::GetUnpackerPath *)
GetUnpackerPath(u) ==
    IF u.cmd = <<>> THEN <<>>
    ELSE IF u.real /\ u.exists THEN GetFileRealPath(ExtractFilePath(u.cmd))
    ELSE <<>>

(* SystemInfo::GetUnpackerPath of the earlier revision: the first token of *)
(* the command, whether or not a file of that name exists                  *)
GetUnpackerPathUnchecked(u) ==
    IF u.cmd = <<>> THEN <<>>
    ELSE ExtractFilePath(u.cmd)

(* a scan that goes on to the last line holding the marker *)
ScanLastMatch(lines, marker) ==
    LET hits == {i \in 1..Len(lines) : HasMarker(lines[i], marker)}
    IN IF hits = {} THEN <<>>
       ELSE ParseUnpackerVersion(
                lines[CHOOSE i \in hits : \A j \in hits : j <= i])

(* while (!feof(pipe)) { if (fgets(...)) { if (strstr(buffer, marker))     *)
(* { version = ParseUnpackerVersion(buffer); break; } } }                  *)
Scan(lines, marker) ==
    LET hits == {i \in 1..Len(lines) : HasMarker(lines[i], marker)}
    IN IF hits = {} THEN <<>>
       ELSE ParseUnpackerVersion(
                lines[CHOOSE i \in hits : \A j \in hits : i <= j])

(* SystemInfo::GetUnpackerVersion *)
GetUnpackerVersion(path, marker, u) ==
    IF path = <<>> THEN <<>>
    ELSE IF ~u.launch THEN <<>>
    ELSE Scan(PipeLines(u), marker)

(* SystemInfo::GetUnpackerVersion of the earlier revision: popen on the    *)
(* path as it is, the empty path included                                  *)
GetUnpackerVersionUnchecked(path, marker, u) ==
    IF ~u.launch THEN <<>>
    ELSE IF path = <<>> THEN <<>>
    ELSE Scan(PipeLines(u), marker)

Revisions == {"CPU.cpp", "SystemInfo.cpp"}

(* SystemInfo::GetUnrar *)
GetUnrar(rev, u) ==
    LET path == IF rev = "CPU.cpp" THEN GetUnpackerPath(u)
                ELSE GetUnpackerPathUnchecked(u)
    IN [name |-> <<"UnRAR">>,
        version |-> IF rev = "CPU.cpp"
                    THEN GetUnpackerVersion(path, "UNRAR", u)
                    ELSE GetUnpackerVersionUnchecked(path, "UNRAR", u),
        path |-> path]

(* SystemInfo::GetSevenZip: the marker is the name of the tool *)
GetSevenZip(rev, u) ==
    LET path == IF rev = "CPU.cpp" THEN GetUnpackerPath(u)
                ELSE GetUnpackerPathUnchecked(u)
    IN [name |-> <<"7-Zip">>,
        version |-> IF rev = "CPU.cpp"
                    THEN GetUnpackerVersion(path, "7-Zip", u)
                    ELSE GetUnpackerVersionUnchecked(path, "7-Zip", u),
        path |-> path]

(* first lines of `python --version` *)
PyLines ==
    {<<"Python", SP, "3.12.3", LF>>,
     <<SP, "Python", SP, "3.12.3", SP, "final", SP, LF>>,
     <<"Python3", LF>>,
     <<SP, "Python3", SP, LF>>,
     BlankLine}

PyOutputs == SeqUpTo(PyLines, MaxLines)

(* what the locate command prints *)
WhichOutputs ==
    {<<>>, <<<<"/usr/bin/python3", LF>>>>,
     <<<<"/usr/bin/python3", LF>>, <<"/bin/python3", LF>>>>}

(* The interpreter as the machine has it:                                  *)
(*   found        Util::FindPython has a value                             *)
(*   launch, out  popen of `<python> --version` and what it prints         *)
(*   whichLaunch, whichOut  the same for the locate command                *)
PythonEnvs ==
    [found : BOOLEAN, launch : BOOLEAN, out : PyOutputs,
     whichLaunch : BOOLEAN, whichOut : WhichOutputs]

NoPython ==
    [found |-> FALSE, launch |-> FALSE, out |-> <<>>,
     whichLaunch |-> FALSE, whichOut |-> <<>>]

(* the version taken from the whole first line, the name included *)
PythonVersionOfWhole(line) == Trim(line)

(* version = buffer; Trim(version); pos = version.find(" ");              *)
(* if (pos != npos) tool.version = version.substr(pos + 1)                 *)
PythonVersionOf(line) ==
    LET version == Trim(line)
        pos == Find(version, <<SP>>)
    IN IF pos # 0 THEN Substr(version, pos + 1) ELSE <<>>

(* SystemInfo::GetPython *)
GetPython(p) ==
    LET tool0 == [name |-> <<"Python">>, version |-> <<>>, path |-> <<>>]
        tool1 == IF p.out # <<>>
                 THEN [tool0 EXCEPT !.version = PythonVersionOf(p.out[1])]
                 ELSE tool0
    IN IF ~p.found THEN tool0
       ELSE IF ~p.launch THEN tool0
       ELSE IF ~p.whichLaunch THEN tool1
       ELSE IF p.whichOut # <<>>
       THEN [tool1 EXCEPT !.path = Trim(p.whichOut[1])]
       ELSE tool1

(* What a call does with its pipes, as events <<kind, pipe>>: "popen",    *)
(* "popen failed", "fgets" (a line was read), "feof" (fgets found the end  *)
(* of the output), "pclose", and "spin": fgets returns no line, feof stays *)
(* false, and the loop goes round without end.                             *)
Returned(trace) == trace = <<>> \/ trace[Len(trace)][1] # "spin"

(* GetUnpackerVersion on the path the revision's GetUnpackerPath gives *)
UnpackerTrace(rev, id, marker, u) ==
    LET path == IF rev = "CPU.cpp" THEN GetUnpackerPath(u)
                ELSE GetUnpackerPathUnchecked(u)
        lines == PipeLines(u)
        hits == {i \in 1..Len(lines) : HasMarker(lines[i], marker)}
        n == IF hits = {} THEN Len(lines)
             ELSE CHOOSE i \in hits : \A j \in hits : i <= j
    IN IF rev = "CPU.cpp" /\ path = <<>> THEN <<>>
       ELSE IF ~u.launch THEN <<<<"popen failed", id>>>>
       ELSE <<<<"popen", id>>>> \o [i \in 1..n |-> <<"fgets", id>>]
            \o (IF hits # {} THEN <<<<"pclose", id>>>>
                ELSE IF u.readErr THEN <<<<"spin", id>>>>
                ELSE <<<<"feof", id>>, <<"pclose", id>>>>)

(* a GetPython that closes its first pipe only at the end *)
PythonTraceLateClose(p) ==
    LET read1 == IF p.out # <<>> THEN <<<<"fgets", 1>>>> ELSE <<<<"feof", 1>>>>
        read2 == IF p.whichOut # <<>> THEN <<<<"fgets", 2>>>>
                 ELSE <<<<"feof", 2>>>>
    IN IF ~p.found THEN <<>>
       ELSE IF ~p.launch THEN <<<<"popen failed", 1>>>>
       ELSE <<<<"popen", 1>>>> \o read1
            \o (IF ~p.whichLaunch THEN <<<<"popen failed", 2>>>>
                ELSE <<<<"popen", 2>>>> \o read2
                     \o <<<<"pclose", 2>>, <<"pclose", 1>>>>)

(* GetPython: popen, one fgets, pclose for `--version`, then the same for  *)
(* the locate command                                                      *)
PythonTrace(p) ==
    LET read1 == IF p.out # <<>> THEN <<<<"fgets", 1>>>> ELSE <<<<"feof", 1>>>>
        read2 == IF p.whichOut # <<>> THEN <<<<"fgets", 2>>>>
                 ELSE <<<<"feof", 2>>>>
    IN IF ~p.found THEN <<>>
       ELSE IF ~p.launch THEN <<<<"popen failed", 1>>>>
       ELSE <<<<"popen", 1>>>> \o read1 \o <<<<"pclose", 1>>>>
            \o (IF ~p.whichLaunch THEN <<<<"popen failed", 2>>>>
                ELSE <<<<"popen", 2>>>> \o read2 \o <<<<"pclose", 2>>>>)

(* GetTools: the three resolutions one after the other; a resolution that  *)
(* does not return keeps the next from starting                            *)
ToolsTrace(h) ==
    LET t1 == PythonTrace(h.python)
        t2 == UnpackerTrace("CPU.cpp", 3, "7-Zip", h.sevenzip)
        t3 == UnpackerTrace("CPU.cpp", 4, "UNRAR", h.unrar)
    IN IF ~Returned(t2) THEN t1 \o t2 ELSE t1 \o t2 \o t3

(* a list that begins with the archivers *)
GetToolsArchiversFirst(h) ==
    <<GetSevenZip("CPU.cpp", h.sevenzip), GetUnrar("CPU.cpp", h.unrar),
      GetPython(h.python)>>

(* SystemInfo::GetTools *)
GetTools(h) ==
    <<GetPython(h.python), GetSevenZip("CPU.cpp", h.sevenzip),
      GetUnrar("CPU.cpp", h.unrar)>>

(* The machine: the interpreter, the two archivers, and a banner line for  *)
(* the version extractor                                                   *)
NoHost ==
    [python |-> NoPython, sevenzip |-> NoUnpacker, unrar |-> NoUnpacker,
     line |-> <<>>]

(* machines with the three tools in their main conditions all at once *)
PythonCases ==
    {NoPython,
     [found |-> TRUE, launch |-> TRUE,
      out |-> <<<<"Python", SP, "3.12.3", LF>>>>,
      whichLaunch |-> TRUE, whichOut |-> <<<<"/usr/bin/python3", LF>>>>],
     [found |-> TRUE, launch |-> TRUE, out |-> <<>>,
      whichLaunch |-> FALSE, whichOut |-> <<>>]}

UnpackerCases ==
    {NoUnpacker,
     [cmd |-> <<"unrar">>, real |-> TRUE, exists |-> FALSE, launch |-> TRUE,
      out |-> <<>>, readErr |-> FALSE],
     [cmd |-> <<"unrar">>, real |-> TRUE, exists |-> TRUE, launch |-> TRUE,
      out |-> <<Banner7z, BannerUnrar>>, readErr |-> FALSE],
     [cmd |-> <<"unrar", SP, "-ai">>, real |-> TRUE, exists |-> TRUE,
      launch |-> TRUE, out |-> <<UsageLine>>, readErr |-> FALSE],
     [cmd |-> <<"unrar">>, real |-> TRUE, exists |-> TRUE, launch |-> TRUE,
      out |-> <<UsageLine>>, readErr |-> TRUE]}

Hosts ==
    {[NoHost EXCEPT !.line = l] : l \in Lines}
    \cup {[NoHost EXCEPT !.python = p] : p \in PythonEnvs}
    \cup {[NoHost EXCEPT !.sevenzip = u] : u \in UnpackerEnvs}
    \cup {[NoHost EXCEPT !.unrar = u] : u \in UnpackerEnvs}
    \cup [python : PythonCases, sevenzip : UnpackerCases,
          unrar : UnpackerCases, line : {<<>>}]

NoTool ==
    [fn |-> "none", rev |-> "none", arg |-> "none", ret |-> <<>>,
     trace |-> <<>>]

(* a call: the function, its revision and argument, the value returned     *)
(* (of no meaning when the call does not return) and the pipe events       *)
Applied(fn, rev, arg, ret, trace) ==
    [fn |-> fn, rev |-> rev, arg |-> arg, ret |-> ret, trace |-> trace]

CallParseUnpackerVersion ==
    /\ tool.fn = "none"
    /\ tool' = Applied("ParseUnpackerVersion", "CPU.cpp", "line",
                       ParseUnpackerVersion(host.line), <<>>)
    /\ UNCHANGED host
    /\ UNCHANGED <<cacheVars, probeVars, serVars, parseVars, liveVars>>

CallGetUnpackerPath ==
    /\ tool.fn = "none"
    /\ \E rev \in Revisions, a \in {"sevenzip", "unrar"} :
          tool' = Applied("GetUnpackerPath", rev, a,
                          IF rev = "CPU.cpp" THEN GetUnpackerPath(host[a])
                          ELSE GetUnpackerPathUnchecked(host[a]), <<>>)
    /\ UNCHANGED host
    /\ UNCHANGED <<cacheVars, probeVars, serVars, parseVars, liveVars>>

(* GetUnpackerVersion on the path GetUnpackerPath gave, with either marker *)
CallGetUnpackerVersion ==
    /\ tool.fn = "none"
    /\ \E rev \in Revisions, a \in {"sevenzip", "unrar"},
          marker \in {"7-Zip", "UNRAR"} :
          tool' = Applied("GetUnpackerVersion", rev,
                          [of |-> a, marker |-> marker],
                          IF rev = "CPU.cpp"
                          THEN GetUnpackerVersion(GetUnpackerPath(host[a]),
                                                  marker, host[a])
                          ELSE GetUnpackerVersionUnchecked(
                                   GetUnpackerPathUnchecked(host[a]),
                                   marker, host[a]),
                          UnpackerTrace(rev, 1, marker, host[a]))
    /\ UNCHANGED host
    /\ UNCHANGED <<cacheVars, probeVars, serVars, parseVars, liveVars>>

CallGetSevenZip ==
    /\ tool.fn = "none"
    /\ \E rev \in Revisions :
          tool' = Applied("GetSevenZip", rev, "sevenzip",
                          GetSevenZip(rev, host.sevenzip),
                          UnpackerTrace(rev, 1, "7-Zip", host.sevenzip))
    /\ UNCHANGED host
    /\ UNCHANGED <<cacheVars, probeVars, serVars, parseVars, liveVars>>

CallGetUnrar ==
    /\ tool.fn = "none"
    /\ \E rev \in Revisions :
          tool' = Applied("GetUnrar", rev, "unrar",
                          GetUnrar(rev, host.unrar),
                          UnpackerTrace(rev, 1, "UNRAR", host.unrar))
    /\ UNCHANGED host
    /\ UNCHANGED <<cacheVars, probeVars, serVars, parseVars, liveVars>>

CallGetPython ==
    /\ tool.fn = "none"
    /\ tool' = Applied("GetPython", "CPU.cpp", "python",
                       GetPython(host.python), PythonTrace(host.python))
    /\ UNCHANGED host
    /\ UNCHANGED <<cacheVars, probeVars, serVars, parseVars, liveVars>>

CallGetTools ==
    /\ tool.fn = "none"
    /\ tool' = Applied("GetTools", "CPU.cpp", "host", GetTools(host),
                       ToolsTrace(host))
    /\ UNCHANGED host
    /\ UNCHANGED <<cacheVars, probeVars, serVars, parseVars, liveVars>>

-----------------------------------------------------------------------------
(* The serializers: SystemInfo::ToJsonStr and ToXmlStr.                    *)
(*                                                                         *)
(* A leaf of the snapshot is one string.  A document is a sequence of      *)
(* tokens <<kind, text>>: for XML "open", "close", "empty" (a self-closed  *)
(* element) and "text"; for JSON "punct", "key" and "str".                 *)

(* leaf values: the empty string, a plain word, a string with characters   *)
(* that the encoders escape                                                *)
Values == {"", "abc", "a&b\\c"}

(* the greatest number of tools, and of libraries, in a snapshot *)
MaxTools == 3

MaxLibraries == 4

(* lines of /proc/cpuinfo and of /etc/os-release *)
MaxCpuLines == 2

MaxOsLines == 2

(* serializer calls on one running program *)
MaxSerCalls == 2

(* leaf values of the tools and libraries *)
ItemValues == {"", "a&b\\c"}

Tools == [name : ItemValues, version : ItemValues, path : ItemValues]

Libraries == [name : ItemValues, version : ItemValues]

NoSnap ==
    [os |-> [name |-> "", version |-> ""],
     cpu |-> [model |-> "", arch |-> ""],
     network |-> [publicIP |-> "", privateIP |-> ""],
     tools |-> <<>>, libraries |-> <<>>]

(* what GetOSInfo, GetCPUInfo, GetNetworkInfo, GetTools and GetLibraries   *)
(* hand to a serializer                                                    *)
Snaps ==
    {[NoSnap EXCEPT !.os = o, !.cpu = c, !.network = n] :
        o \in [name : Values, version : Values],
        c \in [model : Values, arch : Values],
        n \in [publicIP : Values, privateIP : Values]}
    \cup {[NoSnap EXCEPT !.tools = t] : t \in SeqUpTo(Tools, MaxTools)}
    \cup {[NoSnap EXCEPT !.libraries = l] :
             l \in SeqUpTo(Libraries, MaxLibraries)}

NoDoc == [fn |-> "none", rev |-> "none", text |-> <<>>]

RECURSIVE Flatten(_)
(* the sequences of ss one after the other *)
Flatten(ss) == IF ss = <<>> THEN <<>> ELSE Head(ss) \o Flatten(Tail(ss))

(* Xml::Serialize on character data: markup characters are escaped *)
XmlText(v) == IF v = "a&b\\c" THEN "a&amp;b\\c" ELSE v

(* Json::Serialize on a string: quote, backslash and controls are escaped *)
JsonText(v) == IF v = "a&b\\c" THEN "a&b\\\\c" ELSE v

(* xmlNewNode(name) with its children, as Xml::Serialize writes it *)
XmlNode(name, children) ==
    <<<<"open", name>>>> \o children \o <<<<"close", name>>>>

(* Xml::AddNewNode(parent, name, type, value): the member added to parent; *)
(* an element without content is written self-closed                       *)
AddNewNode(name, type, value) ==
    XmlNode("member",
            XmlNode("name", <<<<"text", name>>>>)
            \o XmlNode("value",
                       IF value = "" THEN <<<<"empty", type>>>>
                       ELSE XmlNode(type, <<<<"text", XmlText(value)>>>>)))

(* the members of a group, one AddNewNode call per field <<name, value>> *)
Members(fields) ==
    Flatten([i \in 1..Len(fields) |->
                AddNewNode(fields[i][1], "string", fields[i][2])])

(* a loop that adds no member for an empty field *)
ToolFieldsSkipEmpty(tools) ==
    Flatten([i \in 1..Len(tools) |->
                SelectSeq(<<<<"Name", tools[i].name>>,
                            <<"Version", tools[i].version>>,
                            <<"Path", tools[i].path>>>>,
                          LAMBDA f : f[2] # "")])

(* for (tool : tools): Name, Version, Path of each tool in turn *)
ToolFields(tools) ==
    Flatten([i \in 1..Len(tools) |->
                <<<<"Name", tools[i].name>>,
                  <<"Version", tools[i].version>>,
                  <<"Path", tools[i].path>>>>])

(* for (library : libraries): Name, Version of each library in turn *)
LibraryFields(libs) ==
    Flatten([i \in 1..Len(libs) |->
                <<<<"Name", libs[i].name>>, <<"Version", libs[i].version>>>>])

XmlRevisions == {"CPU.cpp", "SystemInfo.cpp", "part_001"}

(* SystemInfo::ToXmlStr, in its three revisions: the AddNewNode calls of   *)
(* each, and the xmlAddChild calls in the order they are made              *)
ToXmlStr(rev, s) ==
    LET osFields ==
            IF rev = "CPU.cpp"
            THEN <<<<"Name", s.os.name>>, <<"Version", s.os.version>>>>
            ELSE <<<<"Name", s.os.name>>, <<"Version", s.os.name>>>>
        networkFields ==
            <<<<"PublicIP", s.network.publicIP>>,
              <<"PrivateIP", s.network.privateIP>>>>
        cpuFields ==
            IF rev = "SystemInfo.cpp"
            THEN <<<<"Model", s.network.publicIP>>,
                   <<"PrivateIP", s.network.privateIP>>>>
            ELSE <<<<"Model", s.cpu.model>>, <<"Arch", s.cpu.arch>>>>
    IN XmlNode("value",
          XmlNode("struct",
             XmlNode("OS", Members(osFields))
             \o XmlNode("Network", Members(networkFields))
             \o XmlNode("CPU", Members(cpuFields))
             \o XmlNode("Tools", Members(ToolFields(s.tools)))
             \o XmlNode("Libraries", Members(LibraryFields(s.libraries)))))

(* Json::Serialize on an object: the members in the order they were        *)
(* inserted, each <<key, text of the value>>                               *)
JsonObject(members) ==
    <<<<"punct", "{">>>>
    \o Flatten([i \in 1..Len(members) |->
                   (IF i = 1 THEN <<>> ELSE <<<<"punct", ",">>>>)
                   \o <<<<"key", members[i][1]>>>> \o members[i][2]])
    \o <<<<"punct", "}">>>>

(* Json::Serialize on an array: the elements in push_back order *)
JsonArray(elements) ==
    <<<<"punct", "[">>>>
    \o Flatten([i \in 1..Len(elements) |->
                   (IF i = 1 THEN <<>> ELSE <<<<"punct", ",">>>>)
                   \o elements[i]])
    \o <<<<"punct", "]">>>>

(* a string member value *)
JsonString(v) == <<<<"str", JsonText(v)>>>>

(* a document whose groups come in the order their objects are filled *)
ToJsonStrAsFilled(s) ==
    LET osJson == JsonObject(<<<<"Name", JsonString(s.os.name)>>,
                               <<"Version", JsonString(s.os.version)>>>>)
        networkJson ==
            JsonObject(<<<<"PublicIP", JsonString(s.network.publicIP)>>,
                         <<"PrivateIP", JsonString(s.network.privateIP)>>>>)
        cpuJson == JsonObject(<<<<"Model", JsonString(s.cpu.model)>>,
                                <<"Arch", JsonString(s.cpu.arch)>>>>)
        toolsJson ==
            JsonArray([i \in 1..Len(s.tools) |->
                JsonObject(<<<<"Name", JsonString(s.tools[i].name)>>,
                             <<"Version", JsonString(s.tools[i].version)>>,
                             <<"Path", JsonString(s.tools[i].path)>>>>)])
        librariesJson ==
            JsonArray([i \in 1..Len(s.libraries) |->
                JsonObject(
                    <<<<"Name", JsonString(s.libraries[i].name)>>,
                      <<"Version", JsonString(s.libraries[i].version)>>>>)])
    IN JsonObject(<<<<"OS", osJson>>, <<"Network", networkJson>>,
                    <<"CPU", cpuJson>>, <<"Tools", toolsJson>>,
                    <<"Libraries", librariesJson>>>>)

(* SystemInfo::ToJsonStr *)
ToJsonStr(s) ==
    LET osJson == JsonObject(<<<<"Name", JsonString(s.os.name)>>,
                               <<"Version", JsonString(s.os.version)>>>>)
        networkJson ==
            JsonObject(<<<<"PublicIP", JsonString(s.network.publicIP)>>,
                         <<"PrivateIP", JsonString(s.network.privateIP)>>>>)
        cpuJson == JsonObject(<<<<"Model", JsonString(s.cpu.model)>>,
                                <<"Arch", JsonString(s.cpu.arch)>>>>)
        toolsJson ==
            JsonArray([i \in 1..Len(s.tools) |->
                JsonObject(<<<<"Name", JsonString(s.tools[i].name)>>,
                             <<"Version", JsonString(s.tools[i].version)>>,
                             <<"Path", JsonString(s.tools[i].path)>>>>)])
        librariesJson ==
            JsonArray([i \in 1..Len(s.libraries) |->
                JsonObject(
                    <<<<"Name", JsonString(s.libraries[i].name)>>,
                      <<"Version", JsonString(s.libraries[i].version)>>>>)])
    IN JsonObject(<<<<"OS", osJson>>, <<"CPU", cpuJson>>,
                    <<"Network", networkJson>>, <<"Tools", toolsJson>>,
                    <<"Libraries", librariesJson>>>>)

CallToJsonStr ==
    /\ doc.fn = "none"
    /\ doc' = [fn |-> "ToJsonStr", rev |-> "CPU.cpp", text |-> ToJsonStr(snap)]
    /\ UNCHANGED snap
    /\ UNCHANGED <<cacheVars, probeVars, toolVars, parseVars, liveVars>>

CallToXmlStr ==
    /\ doc.fn = "none"
    /\ \E rev \in XmlRevisions :
          doc' = [fn |-> "ToXmlStr", rev |-> rev, text |-> ToXmlStr(rev, snap)]
    /\ UNCHANGED snap
    /\ UNCHANGED <<cacheVars, probeVars, toolVars, parseVars, liveVars>>

-----------------------------------------------------------------------------
(* CPU::Init and OS::Init on Linux.  The lines of the two files are         *)
(* sequences of single characters, as std::getline hands them over.        *)

(* the double quote character *)
DQ == "DQ"

K_ModelName == <<"m", "o", "d", "e", "l", SP, "n", "a", "m", "e">>

K_NAME == <<"N", "A", "M", "E", "=">>

K_VERSION_ID == <<"V", "E", "R", "S", "I", "O", "N", "_", "I", "D", "=">>

K_BUILD_ID == <<"B", "U", "I", "L", "D", "_", "I", "D", "=">>

CpuLines ==
    {K_ModelName \o <<SP, ":", SP, "i", "7">>,
     K_ModelName \o <<SP, ":", SP, "z", "9">>,
     K_ModelName \o <<":", "i", "7">>,
     K_ModelName,
     K_ModelName \o <<SP, ":">>,
     K_ModelName \o <<SP, ":", SP>>,
     <<"c", "p", "u", SP, "f", "a", "m", "i", "l", "y", SP, ":", SP, "6">>,
     <<"p", "r", "o", "c", "e", "s", "s", "o", "r", SP, ":", SP, "0">>,
     <<"v", "e", "n", "d", "o", "r", "_", "i", "d", SP, ":", SP, "G">>}

OsLines ==
    {K_NAME \o <<DQ, "D", SP, "L", DQ>>,
     K_NAME \o <<"D">>,
     K_NAME,
     K_NAME \o <<DQ>>,
     <<"P", "R", "E", "T", "T", "Y", "_", "N", "A", "M", "E", "=", DQ, "D", DQ>>,
     K_VERSION_ID \o <<DQ, "1", "2", DQ>>,
     K_VERSION_ID,
     K_VERSION_ID \o <<DQ>>,
     K_BUILD_ID \o <<"r">>,
     <<"I", "D", "=", "d">>}

(* what reading the first or last character of an empty string gives: the *)
(* terminating NUL, some byte that happens to be a quote, or an abort of   *)
(* a build with container assertions                                       *)
EmptyReads == {"nul", "quote", "abort"}

NoFile ==
    [kind |-> "none", readable |-> FALSE, lines |-> <<>>, lscpu |-> <<>>,
     docker |-> FALSE, uname |-> FALSE, ub |-> "nul"]

CpuFiles ==
    {[NoFile EXCEPT !.kind = "cpuinfo", !.readable = r, !.lines = l,
                    !.lscpu = c] :
        r \in BOOLEAN, l \in SeqUpTo(CpuLines, MaxCpuLines),
        c \in {<<>>, <<"M", "o", "d", "e", "l", SP, "n", "a", "m", "e", ":", SP, "i", "7">>}}

OsFiles ==
    {[NoFile EXCEPT !.kind = "os-release", !.readable = r, !.lines = l,
                    !.docker = d, !.uname = u, !.ub = b] :
        r \in BOOLEAN, l \in SeqUpTo(OsLines, MaxOsLines), d \in BOOLEAN,
        u \in BOOLEAN, b \in EmptyReads}

NoParsed ==
    [fn |-> "none", rev |-> "none", model |-> <<>>, name |-> <<>>,
     version |-> <<>>, raised |-> FALSE, readEmpty |-> FALSE,
     aborted |-> FALSE]

(* line.find(pat) + k as a size_t, counted from 0: npos + k wraps to k - 1 *)
PosAfter(line, pat, k) ==
    IF Find(line, pat) = 0 THEN k - 1 ELSE Find(line, pat) - 1 + k

(* line.substr(pos) followed by Util::Trim; substr throws                  *)
(* std::out_of_range when pos > size()                                     *)
SubstrTrim(line, pos) ==
    IF pos > Len(line)
    THEN [text |-> <<>>, raised |-> TRUE]
    ELSE [text |-> Trim(SubSeq(line, pos + 1, Len(line))), raised |-> FALSE]

CpuRevisions == {"CPU.cpp", "SystemInfo.cpp", "part_006"}

(* the line.find() tests that select the line *)
CpuKeys(rev) ==
    IF rev = "CPU.cpp"
    THEN {K_ModelName,
          <<"P", "r", "o", "c", "e", "s", "s", "o", "r">>,
          <<"c", "p", "u", SP, "m", "o", "d", "e", "l">>,
          <<"c", "p", "u">>}
    ELSE {K_ModelName}

(* find(":") + 1 in CPU.cpp, find(":") + 2 in the two older revisions *)
ColonSkip(rev) == IF rev = "CPU.cpp" THEN 1 ELSE 2

(* CPU::GetCPUModelFromCPUInfo, and the loop of CPUInfo::Init and          *)
(* SystemInfo::InitCPU                                                     *)
GetCPUModelFromCPUInfo(rev, f) ==
    LET hits == {i \in 1..Len(f.lines) :
                    \E k \in CpuKeys(rev) : Find(f.lines[i], k) # 0}
        first == CHOOSE i \in hits : \A j \in hits : i <= j
    IN IF ~f.readable \/ hits = {}
       THEN [found |-> FALSE, text |-> <<>>, raised |-> FALSE]
       ELSE LET r == SubstrTrim(f.lines[first],
                                PosAfter(f.lines[first], <<":">>,
                                         ColonSkip(rev)))
            IN [found |-> ~r.raised, text |-> r.text, raised |-> r.raised]

(* CPU::GetCPUModelFromLSCPU: the first line `lscpu | grep "Model name"`   *)
(* prints, after its colon                                                 *)
GetCPUModelFromLSCPU(f) ==
    IF f.lscpu = <<>>
    THEN [found |-> FALSE, text |-> <<>>, raised |-> FALSE]
    ELSE LET r == SubstrTrim(f.lscpu, PosAfter(f.lscpu, <<":">>, 1))
         IN [found |-> ~r.raised, text |-> r.text, raised |-> r.raised]

(* CPU::Init, CPUInfo::Init, SystemInfo::InitCPU: m_model after the call *)
CPUInit(rev, f) ==
    LET r == GetCPUModelFromCPUInfo(rev, f)
    IN IF r.found \/ r.raised \/ rev # "CPU.cpp" THEN r
       ELSE GetCPUModelFromLSCPU(f)

(* OS::TrimQuotes *)
TrimQuotes(str, ub) ==
    LET frontEmpty == str = <<>>
        frontQuote == IF frontEmpty THEN ub = "quote" ELSE str[1] = DQ
        aborts == frontEmpty /\ ub = "abort"
        raised == ~aborts /\ frontQuote /\ frontEmpty
        s1 == IF frontQuote /\ ~frontEmpty THEN Tail(str) ELSE str
        backEmpty == s1 = <<>>
        backRead == ~aborts /\ ~raised
        backQuote == IF backEmpty THEN ub = "quote" ELSE s1[Len(s1)] = DQ
        s2 == IF backQuote /\ ~backEmpty THEN SubSeq(s1, 1, Len(s1) - 1)
              ELSE s1
    IN [str |-> IF backRead THEN s2 ELSE s1,
        readEmpty |-> frontEmpty \/ (backRead /\ backEmpty),
        raised |-> raised,
        aborted |-> aborts \/ (backRead /\ backEmpty /\ ub = "abort")]

RECURSIVE OSInitFrom(_, _, _)
(* the getline loop of OS::Init from line i on *)
OSInitFrom(f, i, st) ==
    IF i > Len(f.lines) \/ st.raised \/ st.aborted THEN st
    ELSE IF st.name # <<>> /\ st.version # <<>> THEN st
    ELSE LET line == f.lines[i]
             value == Trim(SubSeq(line, Find(line, <<"=">>) + 1, Len(line)))
             q == TrimQuotes(value, f.ub)
             seen(s) == [s EXCEPT !.readEmpty = @ \/ q.readEmpty,
                                  !.raised = q.raised,
                                  !.aborted = q.aborted]
         IN IF st.name = <<>> /\ Find(line, K_NAME) = 1
            THEN OSInitFrom(f, i + 1,
                   seen([st EXCEPT !.name =
                            IF q.raised \/ q.aborted THEN <<>>
                            ELSE IF f.docker
                            THEN q.str \o <<SP, "(Running in Docker)">>
                            ELSE q.str]))
            ELSE IF st.version = <<>> /\ Find(line, K_VERSION_ID) = 1
            THEN OSInitFrom(f, i + 1,
                   seen([st EXCEPT !.version =
                            IF q.raised \/ q.aborted THEN <<>> ELSE q.str]))
            ELSE IF st.version = <<>> /\ Find(line, K_BUILD_ID) = 1
            THEN OSInitFrom(f, i + 1, [st EXCEPT !.version = value])
            ELSE OSInitFrom(f, i + 1, st)

(* OS::Init / OSInfo::Init: the loop, then `uname -o` and `uname -r` for   *)
(* what is still empty                                                     *)
OSInit(f) ==
    LET st == IF f.readable THEN OSInitFrom(f, 1, NoParsed) ELSE NoParsed
    IN IF st.raised \/ st.aborted THEN st
       ELSE [st EXCEPT
               !.name = IF @ = <<>> /\ f.uname THEN <<"GNU/Linux">> ELSE @,
               !.version = IF @ = <<>> /\ f.uname THEN <<"6.1.0">> ELSE @]

CallCPUInit ==
    /\ file.kind = "cpuinfo"
    /\ parsed.fn = "none"
    /\ \E rev \in CpuRevisions :
          LET r == CPUInit(rev, file)
          IN parsed' = [NoParsed EXCEPT !.fn = "CPU::Init", !.rev = rev,
                                        !.model = r.text,
                                        !.raised = r.raised]
    /\ UNCHANGED file
    /\ UNCHANGED <<cacheVars, probeVars, toolVars, serVars, liveVars>>

CallOSInit ==
    /\ file.kind = "os-release"
    /\ parsed.fn = "none"
    /\ \E rev \in {"OS.cpp", "OSInfo.cpp"} :
          parsed' = [OSInit(file) EXCEPT !.fn = "OS::Init", !.rev = rev]
    /\ UNCHANGED file
    /\ UNCHANGED <<cacheVars, probeVars, toolVars, serVars, liveVars>>

-----------------------------------------------------------------------------
(* The serializers on the running program: each call asks the SystemInfo   *)
(* object for its five parts, and GetNetworkInfo and GetTools do their     *)
(* work at that moment.                                                    *)

RECURSIVE Join(_)
(* the std::string a sequence of tokens stands for *)
Join(seq) == IF seq = <<>> THEN "" ELSE Head(seq) \o Join(Tail(seq))

(* what the address service does at the moment of a call *)
LiveEnvs ==
    {[NoEnv EXCEPT !.resp = RespOk(Ip1)], [NoEnv EXCEPT !.resp = RespOk(Ip2)],
     [NoEnv EXCEPT !.dns = FALSE]}

(* what the machine offers the tool resolver at the moment of a call *)
LiveHosts ==
    [python : PythonCases,
     sevenzip : {NoUnpacker,
                 [cmd |-> <<"7z">>, real |-> TRUE, exists |-> TRUE,
                  launch |-> TRUE, out |-> <<Banner7z>>, readErr |-> FALSE]},
     unrar : {NoUnpacker},
     line : {<<>>}]

(* GetOSInfo, GetCPUInfo and GetLibraries return what the constructor      *)
(* stored; GetNetworkInfo and GetTools return what they find now           *)
Gather(base, e, h) ==
    LET network == GetNetworkInfoReadSome(e).network
        tools == GetTools(h)
    IN [base EXCEPT
          !.network = [publicIP |-> Join(network.publicIP),
                       privateIP |-> Join(network.privateIP)],
          !.tools = [i \in 1..Len(tools) |->
                        [name |-> Join(tools[i].name),
                         version |-> Join(tools[i].version),
                         path |-> Join(tools[i].path)]]]

NoLive ==
    [calls |-> 0, connects |-> 0, spawns |-> 0, socketOpen |-> FALSE,
     prev |-> [doc |-> NoDoc, snap |-> NoSnap]]

(* the object after its constructor: OS, CPU and libraries are known *)
Constructed ==
    [NoSnap EXCEPT !.os = [name |-> "abc", version |-> "a&b\\c"],
                   !.cpu = [model |-> "abc", arch |-> ""],
                   !.libraries = <<[name |-> "a&b\\c", version |-> "abc"]>>]

(* what a call did besides building its string *)
Effects(e, h) ==
    LET tr == ToolsTrace(h)
    IN [calls |-> live.calls + 1,
        connects |-> Connects(e),
        spawns |-> Cardinality({i \in 1..Len(tr) : tr[i][1] = "popen"}),
        socketOpen |-> live.socketOpen \/ LocalOf(e) # <<>>,
        prev |-> [doc |-> doc, snap |-> snap]]

ToJsonStrCall ==
    /\ live.calls < MaxSerCalls
    /\ \E e \in LiveEnvs, h \in LiveHosts :
          /\ snap' = Gather(snap, e, h)
          /\ doc' = [fn |-> "ToJsonStr", rev |-> "CPU.cpp",
                     text |-> ToJsonStr(Gather(snap, e, h))]
          /\ live' = Effects(e, h)
    /\ UNCHANGED <<cacheVars, probeVars, toolVars, parseVars>>

ToXmlStrCall ==
    /\ live.calls < MaxSerCalls
    /\ \E e \in LiveEnvs, h \in LiveHosts :
          /\ snap' = Gather(snap, e, h)
          /\ doc' = [fn |-> "ToXmlStr", rev |-> "CPU.cpp",
                     text |-> ToXmlStr("CPU.cpp", Gather(snap, e, h))]
          /\ live' = Effects(e, h)
    /\ UNCHANGED <<cacheVars, probeVars, toolVars, parseVars>>

(* the object after its member initialisers have run *)
InitCache(c) ==
    /\ now = 0
    /\ m_network = EmptyNetwork
    /\ m_networkTimePoint = 0
    /\ m_socket = [open |-> FALSE, local |-> <<>>]
    /\ cfg = c
    /\ pc = [t \in AllThreads |-> "idle"]
    /\ loc = [t \in AllThreads |-> NoLocals]
    /\ last = [t \in AllThreads |-> NoCall]
    /\ calls = 0
    /\ by = [pub |-> 0, priv |-> 0]
    /\ good = NoGood

Init ==
    /\ InitCache([threads |-> {1}, maxCalls |-> MaxCalls, maxTime |-> MaxTime])
    /\ env = NoEnv
    /\ probe = NoProbe
    /\ host = NoHost
    /\ tool = NoTool
    /\ snap = NoSnap
    /\ doc = NoDoc
    /\ file = NoFile
    /\ parsed = NoParsed
    /\ live = NoLive

Next ==
    \/ Tick
    \/ \E t \in AllThreads : Call(t)
    \/ \E t \in AllThreads : Connect(t)
    \/ \E t \in AllThreads : Exchange(t)
    \/ \E t \in AllThreads : SetPublic(t)
    \/ \E t \in AllThreads : SetPrivate(t)

(* one caller at a time: the scheduling the program has *)
Spec == Init /\ [][Next]_vars

InitConc ==
    /\ InitCache([threads |-> AllThreads, maxCalls |-> MaxConcCalls,
                  maxTime |-> MaxConcTime])
    /\ env = NoEnv
    /\ probe = NoProbe
    /\ host = NoHost
    /\ tool = NoTool
    /\ snap = NoSnap
    /\ doc = NoDoc
    /\ file = NoFile
    /\ parsed = NoParsed
    /\ live = NoLive

(* two threads share the object *)
SpecConc == InitConc /\ [][Next]_vars

InitProbe ==
    /\ InitCache([threads |-> {}, maxCalls |-> 0, maxTime |-> 0])
    /\ env \in Envs
    /\ probe = NoProbe
    /\ host = NoHost
    /\ tool = NoTool
    /\ snap = NoSnap
    /\ doc = NoDoc
    /\ file = NoFile
    /\ parsed = NoParsed
    /\ live = NoLive

NextProbe ==
    \/ ProbeReadSome
    \/ ProbeHttpClientGet
    \/ ProbeStream

(* one probe of the address service in an arbitrary environment *)
SpecProbe == InitProbe /\ [][NextProbe]_vars

InitNet == Init \/ InitProbe

NextNet ==
    \/ Next
    \/ cfg.threads = {} /\ NextProbe

(* the resolution with the cache, or one probe of the revision without it *)
SpecNet == InitNet /\ [][NextNet]_vars

InitTools ==
    /\ InitCache([threads |-> {}, maxCalls |-> 0, maxTime |-> 0])
    /\ env = NoEnv
    /\ probe = NoProbe
    /\ host \in Hosts
    /\ tool = NoTool
    /\ snap = NoSnap
    /\ doc = NoDoc
    /\ file = NoFile
    /\ parsed = NoParsed
    /\ live = NoLive

NextTools ==
    \/ CallParseUnpackerVersion
    \/ CallGetUnpackerPath
    \/ CallGetUnpackerVersion
    \/ CallGetSevenZip
    \/ CallGetUnrar
    \/ CallGetPython
    \/ CallGetTools

(* one call of a resolver function on an arbitrary machine *)
SpecTools == InitTools /\ [][NextTools]_vars

InitSer ==
    /\ InitCache([threads |-> {}, maxCalls |-> 0, maxTime |-> 0])
    /\ env = NoEnv
    /\ probe = NoProbe
    /\ host = NoHost
    /\ tool = NoTool
    /\ snap \in Snaps
    /\ doc = NoDoc
    /\ file = NoFile
    /\ parsed = NoParsed
    /\ live = NoLive

NextSer ==
    \/ CallToJsonStr
    \/ CallToXmlStr

(* one call of a serializer on an arbitrary snapshot *)
SpecSer == InitSer /\ [][NextSer]_vars

InitParse ==
    /\ InitCache([threads |-> {}, maxCalls |-> 0, maxTime |-> 0])
    /\ env = NoEnv
    /\ probe = NoProbe
    /\ host = NoHost
    /\ tool = NoTool
    /\ snap = NoSnap
    /\ doc = NoDoc
    /\ file \in CpuFiles \cup OsFiles
    /\ parsed = NoParsed
    /\ live = NoLive

NextParse ==
    \/ CallCPUInit
    \/ CallOSInit

(* one construction of the CPU or of the OS object on an arbitrary machine *)
SpecParse == InitParse /\ [][NextParse]_vars

InitLive ==
    /\ InitCache([threads |-> {}, maxCalls |-> 0, maxTime |-> 0])
    /\ env = NoEnv
    /\ probe = NoProbe
    /\ host = NoHost
    /\ tool = NoTool
    /\ snap = Constructed
    /\ doc = NoDoc
    /\ file = NoFile
    /\ parsed = NoParsed
    /\ live = NoLive

NextLive ==
    \/ ToJsonStrCall
    \/ ToXmlStrCall

(* serializer calls on one object while the network and the tools change *)
SpecLive == InitLive /\ [][NextLive]_vars

-----------------------------------------------------------------------------
(* Properties of HardwareInfo::GetNetwork *)

Finished(t) == t \in cfg.threads /\ last[t].n > 0 /\ last[t].done

BothSet(net) == net.publicIP # <<>> /\ net.privateIP # <<>>

(* C1: once a resolution has stored a non-empty publicIP and a non-empty   *)
(* privateIP, a call made less than TTL after it returns that very pair    *)
(* and makes no connection attempt.                                        *)
C1_CachedWithinTTL ==
    \A t \in cfg.threads :
        (/\ last[t].n > 0
         /\ last[t].preGood # NoGood
         /\ last[t].at - last[t].preGood.at < TTL)
        => /\ ~last[t].attempted
           /\ last[t].done
           /\ last[t].connects = 0
           /\ last[t].ret = last[t].preGood.val

C1_Witness ==
    /\ Finished(1)
    /\ last[1].preGood # NoGood
    /\ last[1].at = last[1].preGood.at + 1
    /\ last[1].ret = [publicIP |-> <<Ip1>>, privateIP |-> <<LocalAddr(1)>>]
    /\ last[1].connects = 0

(* the attempt failed in the sense of C2: an exception at resolve, connect, *)
(* write or read, a status other than 200, or no separator                 *)
FailedAttempt(rec) ==
    \/ rec.exc \in {"resolve", "connect", "write", "read"}
    \/ /\ rec.resp # NoResp
       /\ \/ StatusCode(rec.resp) # 200
          \/ Find(rec.resp, Separator) = 0

(* C2: a failed attempt leaves the cached value as it was and returns it;  *)
(* with no value ever stored the returned addresses are empty.             *)
C2_FailureKeepsCache ==
    \A t \in cfg.threads :
        (Finished(t) /\ FailedAttempt(last[t]))
        => /\ last[t].ret = last[t].pre
           /\ m_network = last[t].pre
           /\ (last[t].retBy = [pub |-> 0, priv |-> 0]
                 => last[t].ret = EmptyNetwork)

C4_TimePointOnlyOnSuccess ==
    \A t \in cfg.threads :
        (Finished(t) /\ ~last[t].stored)
        => m_networkTimePoint = last[t].preTp

Quiet == \A t \in AllThreads : pc[t] = "idle"

(* C5: publicIP and privateIP of the entry and of the value returned are   *)
(* both empty or both non-empty.                                           *)
C5_BothOrNeither ==
    /\ Quiet => ((m_network.publicIP = <<>>) <=> (m_network.privateIP = <<>>))
    /\ \A t \in cfg.threads :
          Finished(t) =>
             ((last[t].ret.publicIP = <<>>) <=> (last[t].ret.privateIP = <<>>))

(* C6: the entry a call that stored both fields returns holds a publicIP   *)
(* and a privateIP written by one and the same call.                       *)
C6_NoMixedEntry ==
    \A t \in cfg.threads :
        (Finished(t) /\ last[t].stored)
        => last[t].retBy.pub = last[t].retBy.priv

-----------------------------------------------------------------------------
(* Properties of GetNetworkInfo and HttpClient::Get *)

Probed == probe.fn # "none"

(* C7: a response whose status code is not 200 yields no address.          *)
C7_Non200Aborts ==
    (Probed /\ probe.out.resp # NoResp /\ StatusCode(probe.out.resp) # 200)
    => /\ probe.out.network = EmptyNetwork
       /\ probe.out.body = <<>>

StepOrder == <<"connect", "sni", "handshake", "write", "read">>

(* the steps of one attempt are taken in order, and the request is written *)
(* only after connect, SNI and handshake have all succeeded                *)
OrderedAttempt(log) ==
    /\ Len(log) <= Len(StepOrder)
    /\ \A i \in 1..Len(log) : log[i].step = StepOrder[i]
    /\ \A i \in 1..Len(log) :
          log[i].step \in {"write", "read"}
            => \A j \in 1..3 : log[j].ok
    /\ \A i \in 1..Len(log) : log[i].step = "read" => log[i - 1].ok

(* C8: connect, SNI, handshake, write, read in that order; no request is   *)
(* written and no response read after a failed connect, SNI or handshake.  *)
C8_StepOrder ==
    Probed => OrderedAttempt(probe.out.log) /\ OrderedAttempt(probe.out.log2)

(* HttpClient::Get with every endpoint refusing: the handshake is reached  *)
(* and fails, nothing is written                                           *)
C8_Witness ==
    /\ probe.fn = "HttpClientGet"
    /\ Len(probe.out.log) = 3
    /\ ~probe.out.log[1].ok
    /\ probe.out.log[2].ok
    /\ ~probe.out.log[3].ok
    /\ probe.out.raised

(* C9 as stated: at most one endpoint is tried.                            *)
C9_OnlyFirstEndpoint ==
    probe.fn = "GetNetworkInfoReadSome" => probe.out.connects <= 1

(* C9 amended: the endpoints are tried in the order resolved, each at most *)
(* once, up to the first that accepts; the connect fails only when every   *)
(* endpoint has refused.                                                   *)
C9_EndpointsInOrder ==
    (/\ probe.fn \in {"GetNetworkInfoReadSome", "HttpClientGet"}
     /\ probe.out.log # <<>>)
    => LET k == probe.out.connects
       IN /\ k \in 1..Len(env.eps)
          /\ \A i \in 1..(k - 1) : ~env.eps[i]
          /\ probe.out.log[1].ok <=> env.eps[k]
          /\ ~probe.out.log[1].ok => k = Len(env.eps)

(* the first endpoint refuses, the second accepts and carries the exchange *)
C9_Witness ==
    /\ probe.fn = "GetNetworkInfoReadSome"
    /\ ~env.eps[1]
    /\ probe.out.connects = 2
    /\ probe.out.network =
          [publicIP |-> <<Ip1>>, privateIP |-> <<LocalAddr(2)>>]

(* C10: status 200 and a separator give publicIP = the trimmed text after  *)
(* the separator and privateIP = the local address of the connection.      *)
C10_SuccessValues ==
    (/\ probe.fn \in {"GetNetworkInfoReadSome", "GetNetworkInfoStream"}
     /\ ~probe.out.raised
     /\ probe.out.resp # NoResp
     /\ StatusCode(probe.out.resp) = 200
     /\ Find(probe.out.resp, Separator) # 0)
    => /\ probe.out.network.publicIP = Trim(BodyOf(probe.out.resp))
       /\ probe.out.network.privateIP = probe.out.local

(* C11: GetNetworkInfo returns a NetworkInfo to its caller whatever step   *)
(* of the exchange fails; no exception leaves the call.                    *)
C11_NeverRaises ==
    probe.fn \in {"GetNetworkInfoReadSome", "GetNetworkInfoStream"}
    => ~probe.out.raised

-----------------------------------------------------------------------------
(* Properties of the tool resolver *)

(* C12: an archiver whose command is empty, or whose first token does not  *)
(* resolve to an existing file, gets a Tool with its name, an empty path   *)
(* and an empty version.                                                   *)
C12_AbsentArchiver ==
    (/\ tool.fn \in {"GetSevenZip", "GetUnrar"}
     /\ ~Resolves(host[tool.arg]))
    => /\ tool.ret.path = <<>>
       /\ tool.ret.version = <<>>
       /\ tool.ret.name =
             (IF tool.fn = "GetUnrar" THEN <<"UnRAR">> ELSE <<"7-Zip">>)

(* the lines the scan of a GetUnpackerVersion call had to read *)
Scanned ==
    LET u == host[tool.arg.of]
    IN IF u.launch /\ Resolves(u) THEN u.out ELSE <<>>

(* C13: GetUnpackerVersion returns the extractor's result for the first    *)
(* output line holding the marker, whatever later lines hold, and the      *)
(* empty string when no line holds it (no output, no launch).  This is     *)
(* about the value of a call that returns.                                 *)
C13_FirstMarkerLine ==
    (/\ tool.fn = "GetUnpackerVersion"
     /\ tool.rev = "CPU.cpp"
     /\ Returned(tool.trace))
    => LET m == tool.arg.marker
           out == Scanned
       IN /\ (\A i \in 1..Len(out) : ~HasMarker(out[i], m))
                => tool.ret = <<>>
          /\ \A i \in 1..Len(out) :
                (/\ HasMarker(out[i], m)
                 /\ \A j \in 1..(i - 1) : ~HasMarker(out[j], m))
                => tool.ret = ParseUnpackerVersion(out[i])

(* two lines hold the marker and a version each: the first one is taken *)
C13_Witness ==
    /\ tool.fn = "GetUnpackerVersion"
    /\ tool.rev = "CPU.cpp"
    /\ Returned(tool.trace)
    /\ tool.arg.marker = "7-Zip"
    /\ Scanned = <<Banner7z, Banner7zLater>>
    /\ tool.ret = <<"1", "9", Dot, "0", "0">>

(* t is digits, a dot, digits, with a digit on each side at least *)
FloatShaped(t) ==
    \E k \in 2..(Len(t) - 1) :
       /\ t[k] = Dot
       /\ \A i \in (1..Len(t)) \ {k} : IsDigit(t[i])

(* the leftmost substring of that shape, taken as long as it goes *)
FirstFloat(s) ==
    LET spans == {<<i, j>> \in (1..Len(s)) \X (1..Len(s)) :
                     i <= j /\ FloatShaped(SubSeq(s, i, j))}
    IN IF spans = {} THEN <<>>
       ELSE LET b == CHOOSE x \in spans :
                        \A y \in spans :
                           \/ x[1] < y[1]
                           \/ x[1] = y[1] /\ x[2] >= y[2]
            IN SubSeq(s, b[1], b[2])

(* C14: the version extractor returns the first substring digits.digits of *)
(* the line, and the empty string when the line has none.                  *)
C14_FirstDigitsDotDigits ==
    tool.fn = "ParseUnpackerVersion" => tool.ret = FirstFloat(host.line)

(* C15: for a found interpreter the version is the text after the first    *)
(* space of the trimmed first line of `--version`; it is empty when that   *)
(* line has no space, when nothing is printed and when the subprocess      *)
(* cannot be launched; the name is "Python" in each case.                  *)
C15_PythonVersion ==
    (tool.fn = "GetPython" /\ host.python.found)
    => LET p == host.python
           T == IF p.launch /\ p.out # <<>> THEN Trim(p.out[1]) ELSE <<>>
           sp == {i \in 1..Len(T) : T[i] = SP}
       IN /\ tool.ret.name = <<"Python">>
          /\ sp = {} => tool.ret.version = <<>>
          /\ \A i \in sp :
                (\A j \in sp : i <= j)
                => tool.ret.version = SubSeq(T, i + 1, Len(T))

(* a first line with spaces around and inside: the version is all that     *)
(* follows the first inner space                                           *)
C15_Witness ==
    /\ tool.fn = "GetPython"
    /\ host.python.found
    /\ host.python.launch
    /\ host.python.out # <<>>
    /\ host.python.out[1] =
          <<SP, "Python", SP, "3.12.3", SP, "final", SP, LF>>
    /\ tool.ret.version = <<"3.12.3", SP, "final">>

(* C16: GetTools returns three entries named Python, 7-Zip, UnRAR in that  *)
(* order, whatever each resolution gave (the value of a call that returns).*)
C16_ThreeToolsInOrder ==
    (tool.fn = "GetTools" /\ Returned(tool.trace))
    => /\ Len(tool.ret) = 3
       /\ tool.ret[1].name = <<"Python">>
       /\ tool.ret[2].name = <<"7-Zip">>
       /\ tool.ret[3].name = <<"UnRAR">>

(* no interpreter, 7-Zip resolved with its version, UnRAR not configured *)
C16_Witness ==
    /\ tool.fn = "GetTools"
    /\ ~host.python.found
    /\ tool.ret[1].version = <<>>
    /\ tool.ret[2].version = <<"1", "9", Dot, "0", "0">>
    /\ tool.ret[2].path # <<>>
    /\ host.unrar.cmd = <<>>
    /\ tool.ret[3].path = <<>>

-----------------------------------------------------------------------------
(* Properties of the serializers *)

(* position of the opening tag of element g in the document *)
OpenPos(g) == Find(doc.text, <<<<"open", g>>>>)

(* what stands between the opening and the closing tag of element g *)
Inside(g) ==
    SubSeq(doc.text, OpenPos(g) + 1, Find(doc.text, <<<<"close", g>>>>) - 1)

(* C17: the groups under <value><struct> come in the order OS, CPU,        *)
(* Network, Tools, Libraries.                                              *)
C17_XmlGroupOrder ==
    doc.fn = "ToXmlStr"
    => /\ SubSeq(doc.text, 1, 2) = <<<<"open", "value">>, <<"open", "struct">>>>
       /\ 0 < OpenPos("OS")
       /\ OpenPos("OS") < OpenPos("CPU")
       /\ OpenPos("CPU") < OpenPos("Network")
       /\ OpenPos("Network") < OpenPos("Tools")
       /\ OpenPos("Tools") < OpenPos("Libraries")

(* the elements of a set of positions in ascending order *)
Ascending(S) ==
    [k \in 1..Cardinality(S) |->
        CHOOSE i \in S : Cardinality({j \in S : j < i}) = k - 1]

(* number of objects and arrays open at position i of the document *)
Depth(i) ==
    Cardinality({j \in 1..(i - 1) :
                    doc.text[j] \in {<<"punct", "{">>, <<"punct", "[">>}})
    - Cardinality({j \in 1..(i - 1) :
                      doc.text[j] \in {<<"punct", "}">>, <<"punct", "]">>}})

(* the keys of the outermost object, in document order *)
TopKeys ==
    LET at == Ascending({i \in 1..Len(doc.text) :
                            doc.text[i][1] = "key" /\ Depth(i) = 1})
    IN [k \in 1..Len(at) |-> doc.text[at[k]][2]]

(* the value that follows top-level key k, up to the next top-level key *)
ValueOf(k, next) ==
    SubSeq(doc.text, Find(doc.text, <<<<"key", k>>>>) + 1,
           IF next = "" THEN Len(doc.text) - 1
           ELSE Find(doc.text, <<<<"key", next>>>>) - 1)

KeysIn(seg) ==
    LET keys == SelectSeq(seg, LAMBDA t : t[1] = "key")
    IN [i \in 1..Len(keys) |-> keys[i][2]]

StringsIn(seg) ==
    LET strs == SelectSeq(seg, LAMBDA t : t[1] = "str")
    IN [i \in 1..Len(strs) |-> strs[i][2]]

ObjectsIn(seg) == Len(SelectSeq(seg, LAMBDA t : t = <<"punct", "{">>))

(* C18: the JSON has the top-level keys OS, CPU, Network, Tools, Libraries *)
(* in that order; the elements of Tools and Libraries follow the source    *)
(* lists, with the keys Name, Version, Path and Name, Version.             *)
C18_JsonOrder ==
    doc.fn = "ToJsonStr"
    => LET tools == ValueOf("Tools", "Libraries")
           libs == ValueOf("Libraries", "")
           nt == Len(snap.tools)
           nl == Len(snap.libraries)
       IN /\ TopKeys = <<"OS", "CPU", "Network", "Tools", "Libraries">>
          /\ ObjectsIn(tools) = nt
          /\ KeysIn(tools) =
                [i \in 1..(3 * nt) |->
                    <<"Name", "Version", "Path">>[((i - 1) % 3) + 1]]
          /\ StringsIn(tools) =
                [i \in 1..(3 * nt) |->
                    LET t == snap.tools[((i - 1) \div 3) + 1]
                    IN JsonText(<<t.name, t.version, t.path>>[((i - 1) % 3) + 1])]
          /\ ObjectsIn(libs) = nl
          /\ KeysIn(libs) =
                [i \in 1..(2 * nl) |-> <<"Name", "Version">>[((i - 1) % 2) + 1]]
          /\ StringsIn(libs) =
                [i \in 1..(2 * nl) |->
                    LET l == snap.libraries[((i - 1) \div 2) + 1]
                    IN JsonText(<<l.name, l.version>>[((i - 1) % 2) + 1])]

(* three tools, not all alike, the second without version *)
C18_Witness ==
    /\ doc.fn = "ToJsonStr"
    /\ Len(snap.tools) = 3
    /\ snap.tools[1] # snap.tools[2]
    /\ snap.tools[2] # snap.tools[3]
    /\ snap.tools[2].version = ""
    /\ snap.tools[3].path = "a&b\\c"
    /\ Find(doc.text, <<<<"key", "Path">>, <<"str", "a&b\\\\c">>>>) # 0

RECURSIVE Leaves(_)
(* the members of a group as read from the document: the name, how the     *)
(* string element is written ("empty" for <string/>, "pair" for            *)
(* <string>text</string>) and the text                                     *)
Leaves(seg) ==
    IF seg = <<>> THEN <<>>
    ELSE IF /\ Len(seg) >= 8
            /\ SubSeq(seg, 1, 2) = <<<<"open", "member">>, <<"open", "name">>>>
            /\ seg[3][1] = "text"
            /\ SubSeq(seg, 4, 8) =
                  <<<<"close", "name">>, <<"open", "value">>,
                    <<"empty", "string">>,
                    <<"close", "value">>, <<"close", "member">>>>
    THEN <<<<seg[3][2], "empty", "">>>> \o Leaves(SubSeq(seg, 9, Len(seg)))
    ELSE IF /\ Len(seg) >= 10
            /\ SubSeq(seg, 1, 2) = <<<<"open", "member">>, <<"open", "name">>>>
            /\ seg[3][1] = "text"
            /\ SubSeq(seg, 4, 6) =
                  <<<<"close", "name">>, <<"open", "value">>,
                    <<"open", "string">>>>
            /\ seg[7][1] = "text"
            /\ SubSeq(seg, 8, 10) =
                  <<<<"close", "string">>, <<"close", "value">>,
                    <<"close", "member">>>>
    THEN <<<<seg[3][2], "pair", seg[7][2]>>>> \o Leaves(SubSeq(seg, 11, Len(seg)))
    ELSE <<<<"", "malformed", "">>>>

(* name and text of the members read *)
Fields(seg) ==
    LET l == Leaves(seg) IN [i \in 1..Len(l) |-> <<l[i][1], l[i][3]>>]

(* C19: in the XML each member of OS, CPU and Network has the name of a    *)
(* field of its group and carries the value of that field.                 *)
C19_XmlFieldsMatch ==
    doc.fn = "ToXmlStr"
    => /\ Fields(Inside("OS")) =
             <<<<"Name", XmlText(snap.os.name)>>,
               <<"Version", XmlText(snap.os.version)>>>>
       /\ Fields(Inside("CPU")) =
             <<<<"Model", XmlText(snap.cpu.model)>>,
               <<"Arch", XmlText(snap.cpu.arch)>>>>
       /\ Fields(Inside("Network")) =
             <<<<"PublicIP", XmlText(snap.network.publicIP)>>,
               <<"PrivateIP", XmlText(snap.network.privateIP)>>>>

(* how a leaf with value v has to be written *)
Written(name, v) ==
    IF v = "" THEN <<name, "empty", "">> ELSE <<name, "pair", XmlText(v)>>

-----------------------------------------------------------------------------
(* Properties of the pipes of the tool resolver *)

(* positions of the events of one kind on one pipe *)
Events(kind, id) ==
    {i \in 1..Len(tool.trace) : tool.trace[i] = <<kind, id>>}

(* C23: every pipe GetPython and GetUnpackerVersion open is closed exactly *)
(* once before the call returns, after its last read; a pipe that could    *)
(* not be opened is not closed.                                            *)
C23_PipesClosedOnce ==
    (/\ tool.fn \in {"GetPython", "GetUnpackerVersion"}
     /\ tool.rev = "CPU.cpp"
     /\ Returned(tool.trace))
    => \A id \in {1, 2} :
          LET opens == Events("popen", id)
              closes == Events("pclose", id)
              reads == Events("fgets", id) \cup Events("feof", id)
          IN /\ Cardinality(opens) <= 1
             /\ Cardinality(closes) = Cardinality(opens)
             /\ \A o \in opens : \A c \in closes : o < c
             /\ \A r \in reads :
                   /\ \E o \in opens : o < r
                   /\ \A c \in closes : r < c

(* the version was read and the locate command could not be launched *)
C23_Witness ==
    /\ tool.fn = "GetPython"
    /\ tool.ret.version # <<>>
    /\ tool.trace =
          <<<<"popen", 1>>, <<"fgets", 1>>, <<"pclose", 1>>,
            <<"popen failed", 2>>>>

(* C25: an archiver whose path resolution gives the empty path gets no     *)
(* subprocess and an empty version.                                        *)
C25_NoSpawnForEmptyPath ==
    (/\ tool.fn \in {"GetSevenZip", "GetUnrar"}
     /\ Returned(tool.trace)
     /\ tool.ret.path = <<>>)
    => /\ tool.trace = <<>>
       /\ tool.ret.version = <<>>

(* C28: the scanning loop of GetUnpackerVersion ends, and the function     *)
(* returns, whatever the pipe does.                                        *)
C28_LoopExits ==
    tool.fn = "GetUnpackerVersion" => Returned(tool.trace)

-----------------------------------------------------------------------------
(* Properties of the socket of the resolution *)

(* C24: when a resolution attempt has returned, by whatever exit, the      *)
(* socket it used is closed.                                               *)
C24_SocketClosedOnReturn ==
    \A t \in cfg.threads :
        (Finished(t) /\ last[t].attempted) => ~m_socket.open

-----------------------------------------------------------------------------
(* Properties of the response without a separator *)

(* the response passes the "200 OK" test and holds no blank line *)
NoSeparator200(resp) ==
    Find(resp, OK200) # 0 /\ Find(resp, <<CRLF, CRLF>>) = 0

(* C26: a 200 response in which the blank line between headers and body    *)
(* cannot be found sets neither address: the call returns the entry it     *)
(* found (both-empty where there is no cache), stores nothing and raises   *)
(* no exception.                                                           *)
C26_NoSeparatorFails ==
    /\ \A t \in cfg.threads :
          (Finished(t) /\ NoSeparator200(last[t].resp))
          => /\ last[t].ret = last[t].pre
             /\ last[t].exc = "none"
             /\ ~last[t].stored
    /\ (probe.fn = "GetNetworkInfoReadSome" /\ NoSeparator200(probe.out.resp))
       => /\ probe.out.network = EmptyNetwork
          /\ ~probe.out.raised

(* the response came while the cache held an earlier pair *)
C26_Witness ==
    \E t \in cfg.threads :
        /\ Finished(t)
        /\ last[t].resp = RespOkNoSeparator
        /\ BothSet(last[t].pre)
        /\ last[t].ret = last[t].pre

(* the same response to the revision without a cache *)
C26_ProbeCase ==
    /\ probe.fn = "GetNetworkInfoReadSome"
    /\ probe.out.resp = RespOkNoSeparator

-----------------------------------------------------------------------------
(* Properties of CPU::Init and OS::Init *)

(* C27: the construction of the CPU object raises no exception, whatever   *)
(* /proc/cpuinfo holds.                                                    *)
C27_CpuInitNeverRaises ==
    parsed.fn = "CPU::Init" => ~parsed.raised

(* C29: OS::Init never has TrimQuotes read the first or the last character *)
(* of an empty string.                                                     *)
C29_TrimQuotesNonEmpty ==
    parsed.fn = "OS::Init" => ~parsed.readEmpty

(* the `model name` lines of the file *)
ModelNameLines ==
    {i \in 1..Len(file.lines) : Find(file.lines[i], K_ModelName) # 0}

(* C30: with a `model name` line in /proc/cpuinfo the CPU model is the     *)
(* trimmed text after the colon of the first such line, whatever lines     *)
(* come before it.                                                         *)
C30_FirstModelNameLine ==
    (/\ parsed.fn = "CPU::Init"
     /\ file.readable
     /\ ModelNameLines # {}
     /\ LET i == CHOOSE i \in ModelNameLines :
                    \A j \in ModelNameLines : i <= j
        IN Find(file.lines[i], <<":">>) # 0)
    => LET i == CHOOSE i \in ModelNameLines : \A j \in ModelNameLines : i <= j
           line == file.lines[i]
       IN /\ ~parsed.raised
          /\ parsed.model =
                Trim(SubSeq(line, Find(line, <<":">>) + 1, Len(line)))

-----------------------------------------------------------------------------
(* Properties of repeated serializer calls *)

(* C21: two calls of the same serializer on one object give the same       *)
(* string whatever the network and the tools did in between, and the JSON  *)
(* and the XML of the object carry the same field values.                  *)
C21_SameStringTwice ==
    live.calls >= 2
    => /\ doc.fn = live.prev.doc.fn => doc.text = live.prev.doc.text
       /\ doc.fn # live.prev.doc.fn => snap = live.prev.snap

(* C22: a serializer call makes no connection attempt, spawns no           *)
(* subprocess and leaves the object's state as it was.                     *)
C22_NoSideEffects ==
    live.calls >= 1
    => /\ live.connects = 0
       /\ live.spawns = 0
       /\ ~live.socketOpen

=============================================================================
